---- MODULE Spec2Model ----
(***************************************************************************)
(* Model of format-anthropic.py: ObsidianVaultOrganizer.                   *)
(*                                                                         *)
(* A file or directory name is a sequence of tokens, "." being a token of  *)
(* its own ("x.md" is <<"x", ".", "md">>, ".obsidian" is                    *)
(* <<".", "obsidian">>), so that startswith('.') and endswith('.md') are   *)
(* computed on the name.  A path is a sequence of names; <<>> is Path('.').*)
(* The vault is the pair (files, dirs): files maps the vault-relative path *)
(* of every regular file to its content (the path the content was created  *)
(* at), dirs is the set of vault-relative paths of the directories below   *)
(* the root.                                                               *)
(***************************************************************************)
EXTENDS Integers, Sequences, FiniteSets, TLC

VARIABLES
    vault_path,      \* self.vault_path, a pathlib.Path [abs, parts]
    backup_enabled,  \* run's create_backup argument (not args.no_backup)
    files,           \* vault: relative path of a file -> content
    dirs,            \* vault: relative paths of the directories below the root
    file_index,      \* self.file_index
    pc,              \* position of run
    outcome,         \* how run ended ("" while it runs)
    plan,            \* organization_plan of run (NoPlan before it is fetched)
    response,        \* what input() returned
    backup_dir,      \* absolute location of this run's backup (NoDir if none)
    backups,         \* absolute locations of the backup directories on disk
    clock,           \* datetime.now(), in seconds
    copies,          \* number of shutil.copytree calls of this run
    moveLog,         \* the "Moved:" / "Error moving" lines of this run
    report,          \* content of _organization_report.md (NoReport if none)
    vault0,          \* the vault when this run started
    denied,          \* files whose move the operating system refuses
    reply_keys,      \* most entries the path mapping of a reply has
    runs             \* number of calls of run on this organizer

vars == <<vault_path, backup_enabled, files, dirs, file_index, pc, outcome,
          plan, response, backup_dir, backups, clock, copies, moveLog,
          report, vault0, runs, denied, reply_keys>>

(***************************************************************************)
(* Bounds                                                                  *)
(***************************************************************************)
MaxFiles == 2        \* files in the initial vault
MaxExtraDirs == 1    \* directories of the initial vault that hold no file
MaxPlanKeys == 2     \* entries of the plan's path mapping
MaxDenied == 1       \* files whose move the operating system refuses
MaxRuns == 2         \* calls of run on one organizer (SpecRerun)
MaxClock == 1        \* seconds that pass between two runs (SpecRerun)

(***************************************************************************)
(* Names and paths                                                         *)
(***************************************************************************)
x_md == <<"x", ".", "md">>
y_md == <<"y", ".", "md">>
z_md == <<"z", ".", "md">>
t_txt == <<"t", ".", "txt">>
s_md == <<".", "s", ".", "md">>
ghost_md == <<"ghost", ".", "md">>
obsidian == <<".", "obsidian">>
trash == <<".", "trash">>
dir_a == <<"a">>
dir_b == <<"b">>
dir_e == <<"e">>
dir_P == <<"P">>
dir_Q == <<"Q">>

\* str.startswith('.')
StartsWithDot(name) == Len(name) >= 1 /\ name[1] = "."

\* str.endswith('.md')
EndsWithMd(name) ==
    Len(name) >= 2 /\ name[Len(name) - 1] = "." /\ name[Len(name)] = "md"

\* PurePath.parent on a relative path: Path('.').parent is Path('.')
Parent(p) == IF p = <<>> THEN <<>> ELSE SubSeq(p, 1, Len(p) - 1)

\* PurePath.name
Name(p) == p[Len(p)]

IsPrefix(p, q) == Len(p) <= Len(q) /\ SubSeq(q, 1, Len(p)) = p

\* the entries of directory d
FilesIn(fs, d) == {p \in fs : Len(p) = Len(d) + 1 /\ Parent(p) = d}
SubdirsIn(ds, d) == {q \in ds : Len(q) = Len(d) + 1 /\ Parent(q) = d}

\* all prefixes of p below the root: what mkdir(parents=True) creates
Ancestors(p) == {SubSeq(p, 1, n) : n \in 1..Len(p)}

RECURSIVE Perms(_)
Perms(S) ==
    IF S = {} THEN {<<>>}
    ELSE UNION {{<<x>> \o r : r \in Perms(S \ {x})} : x \in S}

Range(s) == {s[i] : i \in 1..Len(s)}

(***************************************************************************)
(* pathlib.Path values for the vault path given on the command line        *)
(***************************************************************************)
Cwd == <<<<"home">>, <<"work">>>>

RelPath(parts) == [abs |-> FALSE, parts |-> parts]
AbsPath(parts) == [abs |-> TRUE, parts |-> parts]

\* PurePath.parent: drops the last part; Path('.') and Path('/') are their
\* own parents
PathParent(p) == [abs |-> p.abs, parts |-> Parent(p.parts)]

\* the / operator with a relative right operand
PathJoin(p, rel) == [abs |-> p.abs, parts |-> p.parts \o rel]

\* the absolute location a Path denotes for the process
Resolve(p) == IF p.abs THEN p.parts ELSE Cwd \o p.parts

VaultPaths ==
    { RelPath(<<>>),                                            \* .
      RelPath(<<<<"vault">>>>),                                 \* vault
      AbsPath(<<<<"home">>, <<".", "local">>, <<"vault">>>>) }  \* /home/.local/vault

NoDir == <<<<"-">>>>
NoReport ==
    [written |-> FALSE, descriptions |-> FALSE, folders |-> {}, movements |-> {}]

(***************************************************************************)
(* index_vault                                                             *)
(***************************************************************************)
\* the filter of the inner loop: not hidden and a markdown file
IsNote(name) == ~(StartsWithDot(name) \/ ~EndsWithMd(name))

FileInfo(p) ==
    [filename |-> Name(p), current_folder |-> Parent(p),
     full_relative_path |-> p]

\* os.walk, top-down: the files of a directory, then each subdirectory that
\* dirs[:] keeps, in the order the operating system lists them
RECURSIVE WalkFrom(_, _, _)
RECURSIVE WalkDirs(_, _, _)
WalkFrom(fs, ds, d) ==
    LET notes == {p \in FilesIn(fs, d) : IsNote(Name(p))}
        kept  == {q \in SubdirsIn(ds, d) : ~StartsWithDot(Name(q))}
    IN  {fo \o rest : fo \in Perms(notes), rest \in WalkDirs(fs, ds, kept)}
WalkDirs(fs, ds, S) ==
    IF S = {} THEN {<<>>}
    ELSE UNION {{w \o r : w \in WalkFrom(fs, ds, q),
                          r \in WalkDirs(fs, ds, S \ {q})} : q \in S}

index_vault_append(walk) ==
    file_index \o [i \in 1..Len(walk) |-> FileInfo(walk[i])]

index_vault ==
    /\ pc = "index"
    /\ \E walk \in WalkFrom(DOMAIN files, dirs, <<>>) :
          file_index' = index_vault_append(walk)
    /\ IF file_index' = <<>>
       THEN pc' = "done" /\ outcome' = "no_files"
       ELSE pc' = (IF backup_enabled THEN "backup" ELSE "suggest")
            /\ outcome' = outcome
    /\ UNCHANGED <<vault_path, backup_enabled, files, dirs, plan, response,
                   backup_dir, backups, clock, copies, moveLog, report,
                   vault0, runs, denied, reply_keys>>

(***************************************************************************)
(* create_backup                                                           *)
(***************************************************************************)
\* datetime.now().strftime('%Y%m%d_%H%M%S'): one string per second
Strftime(t) == <<"20240101_000000", "20240101_000001", "20240101_000002",
                 "20240101_000003">>[t + 1]

BackupName(t) == <<"obsidian_vault_backup_", Strftime(t)>>

\* self.vault_path.parent / f"obsidian_vault_backup_{...}"
BackupDir(t) == Resolve(PathJoin(PathParent(vault_path), <<BackupName(t)>>))

VaultRoot == Resolve(vault_path)

\* the location of an entry of the vault, and back
InVault(loc) == IsPrefix(VaultRoot, loc)
RelToVault(loc) == SubSeq(loc, Len(VaultRoot) + 1, Len(loc))

\* shutil.ignore_patterns('.obsidian', '.git'): an entry with such a name is
\* not copied, nor anything below it
Ignored(p) == \E i \in 1..Len(p) : p[i] \in {obsidian, <<".", "git">>}

\* shutil.copytree(self.vault_path, backup_dir, ignore=...) when backup_dir
\* lies in the vault at dst: the entries of the vault are listed before
\* backup_dir is made, and each one not ignored is copied below it
CopyTreeFiles(fs, dst) ==
    LET src == {p \in DOMAIN fs : ~Ignored(p)}
    IN  [q \in DOMAIN fs \cup {dst \o p : p \in src} |->
            IF q \in DOMAIN fs THEN fs[q]
            ELSE fs[SubSeq(q, Len(dst) + 1, Len(q))]]

CopyTreeDirs(ds, dst) ==
    ds \cup {dst} \cup {dst \o d : d \in {e \in ds : ~Ignored(e)}}

\* the copy succeeds; a backup_dir outside the vault leaves the vault alone
create_backup_ok ==
    /\ pc = "backup"
    /\ BackupDir(clock) \notin backups
    /\ backup_dir' = BackupDir(clock)
    /\ backups' = backups \cup {BackupDir(clock)}
    /\ copies' = copies + 1
    /\ IF InVault(BackupDir(clock))
       THEN /\ files' = CopyTreeFiles(files, RelToVault(BackupDir(clock)))
            /\ dirs' = CopyTreeDirs(dirs, RelToVault(BackupDir(clock)))
       ELSE UNCHANGED <<files, dirs>>
    /\ pc' = "suggest"
    /\ UNCHANGED <<vault_path, backup_enabled, file_index, outcome, plan,
                   response, clock, moveLog, report, vault0, runs, denied, reply_keys>>

\* copytree raises before it copies anything: backup_dir exists already
\* (FileExistsError from os.makedirs), or the operating system refuses.
\* run does not catch it.
create_backup_raise_swallowed ==
    /\ pc = "backup"
    /\ copies' = copies + 1
    /\ pc' = "suggest"
    /\ UNCHANGED <<vault_path, backup_enabled, files, dirs, file_index,
                   outcome, plan, response, backup_dir, backups, clock,
                   moveLog, report, vault0, runs, denied, reply_keys>>

create_backup_raise ==
    /\ pc = "backup"
    /\ copies' = copies + 1
    /\ pc' = "done"
    /\ outcome' = "create_backup raised"
    /\ UNCHANGED <<vault_path, backup_enabled, files, dirs, file_index, plan,
                   response, backup_dir, backups, clock, moveLog, report,
                   vault0, runs, denied, reply_keys>>

create_backup == create_backup_ok \/ create_backup_raise

(***************************************************************************)
(* get_organization_suggestions                                            *)
(***************************************************************************)
\* The decoded JSON object: keys is the set of its keys, organization_plan
\* and folder_descriptions are the values of these two keys when present.
\* None is the record with none = TRUE.
PlanKeys == {<<x_md>>, <<dir_a, x_md>>, <<dir_a, dir_b, y_md>>, <<ghost_md>>}
Targets == {<<>>, <<dir_P>>, <<dir_P, dir_Q>>}

Mappings ==
    UNION {[K -> Targets] :
             K \in {S \in SUBSET PlanKeys : Cardinality(S) <= MaxPlanKeys}}

JsonObject(keys, mapping) ==
    [none |-> FALSE, keys |-> keys,
     organization_plan |->
        IF "organization_plan" \in keys THEN mapping ELSE <<>>,
     folder_descriptions |->
        IF "folder_descriptions" \in keys
        THEN {mapping[k] : k \in DOMAIN mapping} ELSE {}]

None ==
    [none |-> TRUE, keys |-> {}, organization_plan |-> <<>>,
     folder_descriptions |-> {}]

Replies ==
    {JsonObject(keys, <<>>) :
        keys \in {{}, {"notes"}, {"folder_descriptions"}}}
    \cup {JsonObject(keys, m) :
            keys \in {{"organization_plan"},
                      {"organization_plan", "folder_descriptions"}},
            m \in Mappings}

\* bool(organization_plan): None and {} are falsy
Truthy(p) == ~p.none /\ p.keys # {}

\* the service fails or the reply holds no JSON object (None is returned),
\* or json.loads returns the object of the reply
get_organization_suggestions ==
    /\ pc = "suggest"
    /\ \E p \in Replies \cup {None} :
          /\ Cardinality(DOMAIN p.organization_plan) <= reply_keys
          /\ plan' = p
    /\ IF ~Truthy(plan')
       THEN pc' = "done" /\ outcome' = "no_plan"
       ELSE pc' = "confirm" /\ outcome' = outcome
    /\ UNCHANGED <<vault_path, backup_enabled, files, dirs, file_index,
                   response, backup_dir, backups, clock, copies, moveLog,
                   report, vault0, runs, denied, reply_keys>>

(***************************************************************************)
(* run, step 4: the confirmation                                           *)
(***************************************************************************)
Inputs == {"yes", "Y", "no"}

\* str.lower
Lower(str) ==
    CASE str = "Y" -> "y"
      [] OTHER -> str

confirm ==
    /\ pc = "confirm"
    /\ \E r \in Inputs : response' = r
    /\ IF Lower(response') \in {"yes", "y"}
       THEN pc' = "reorganize" /\ outcome' = outcome
       ELSE pc' = "done" /\ outcome' = "cancelled"
    /\ UNCHANGED <<vault_path, backup_enabled, files, dirs, file_index, plan,
                   backup_dir, backups, clock, copies, moveLog, report,
                   vault0, runs, denied, reply_keys>>

(***************************************************************************)
(* reorganize_vault                                                        *)
(***************************************************************************)
ReportPath == <<<<"_organization_report", ".", "md">>>>

\* the first loop: the distinct targets other than Path('.'), each made with
\* mkdir(parents=True, exist_ok=True)
NewDirs(mapping) == {mapping[k] : k \in DOMAIN mapping} \ {<<>>}

MakeDirs(ds, mapping) == ds \cup UNION {Ancestors(d) : d \in NewDirs(mapping)}

\* shutil.move(src, dst) of a regular file onto a path that is not a
\* directory: os.rename, which replaces a file that is at dst
ShutilMove(fs, src, dst) ==
    [q \in (DOMAIN fs \ {src}) \cup {dst} |->
        IF q = dst THEN fs[src] ELSE fs[q]]

\* one iteration of the move loop on st = [files, dirs, log].  The move
\* raises when the source is gone or the operating system refuses it; the
\* except clause prints and goes on.  log records, for each attempted move,
\* whether "Moved:" was printed and whether a file was at the destination.
MoveOne(st, mapping, file_info, refused) ==
    LET current_path == file_info.full_relative_path
        new_path == mapping[current_path] \o <<file_info.filename>>
        made == st.dirs \cup Ancestors(Parent(new_path))
        entry(ok) == [current |-> current_path, new |-> new_path,
                      moved |-> ok, collided |-> new_path \in DOMAIN st.files]
    IN  IF current_path \notin DOMAIN mapping THEN st
        ELSE IF current_path = new_path THEN st
        ELSE IF current_path \notin DOMAIN st.files \/ current_path \in refused
        THEN [files |-> st.files, dirs |-> made,
              log |-> Append(st.log, entry(FALSE))]
        ELSE [files |-> ShutilMove(st.files, current_path, new_path),
              dirs |-> made,
              log |-> Append(st.log, entry(TRUE))]

RECURSIVE MoveFiles(_, _, _, _, _)
MoveFiles(st, mapping, index, i, refused) ==
    IF i > Len(index) THEN st
    ELSE MoveFiles(MoveOne(st, mapping, index[i], refused),
                   mapping, index, i + 1, refused)

\* any(part.startswith('.') for part in Path(root).parts): the parts of the
\* vault path are among them
HiddenRoot(d) ==
    \E part \in Range(vault_path.parts \o d) : StartsWithDot(part)

\* cleanup_empty_dirs: os.walk(topdown=False) lists the entries of a
\* directory before it descends, so dirs names the subdirectories the
\* directory had when the sweep began.  The root always holds a file or a
\* directory here, so it is never removed.
CleanupRemoved(fs, ds) ==
    {d \in ds : /\ ~HiddenRoot(d)
                /\ SubdirsIn(ds, d) = {}
                /\ FilesIn(DOMAIN fs, d) = {}}

cleanup_empty_dirs(fs, ds) == ds \ CleanupRemoved(fs, ds)

\* save_organization_report: the lines of the File Movements section, one
\* per item of the path mapping
ReportMovements(mapping) ==
    {<<current, mapping[current]>> : current \in
        {k \in DOMAIN mapping : Parent(k) # mapping[k]}}

save_organization_report(p) ==
    [written |-> TRUE,
     descriptions |-> "folder_descriptions" \in p.keys,
     folders |-> p.folder_descriptions,
     movements |-> ReportMovements(p.organization_plan)]

\* what reorganize_vault makes of the vault (fs, ds) when the plan has the
\* key 'organization_plan'
ReorganizeResult(fs, ds, index, p, refused) ==
    LET mapping == p.organization_plan
        st == MoveFiles([files |-> fs, dirs |-> MakeDirs(ds, mapping),
                         log |-> <<>>], mapping, index, 1, refused)
    IN  [files |-> [q \in DOMAIN st.files \cup {ReportPath} |->
                      IF q = ReportPath THEN ReportPath ELSE st.files[q]],
         dirs |-> cleanup_empty_dirs(st.files, st.dirs),
         log |-> st.log,
         report |-> save_organization_report(p)]

\* the files the move loop calls shutil.move on: the operating system can
\* refuse any of them
Attempted(mapping) ==
    {file_index[i].full_relative_path : i \in 1..Len(file_index)}
        \cap {k \in DOMAIN mapping : k # mapping[k] \o <<Name(k)>>}

\* organization_plan['organization_plan'] raises KeyError on the first line
\* of the first loop when the key is missing; run does not catch it
reorganize_vault_raise ==
    /\ pc = "reorganize"
    /\ "organization_plan" \notin plan.keys
    /\ pc' = "done"
    /\ outcome' = "reorganize_vault raised"
    /\ UNCHANGED <<vault_path, backup_enabled, files, dirs, file_index, plan,
                   response, backup_dir, backups, clock, copies, moveLog,
                   report, vault0, runs, denied, reply_keys>>

reorganize_vault_ok ==
    /\ pc = "reorganize"
    /\ "organization_plan" \in plan.keys
    /\ \E refused \in {S \in SUBSET Attempted(plan.organization_plan) :
                         Cardinality(S) <= MaxDenied} :
          LET r == ReorganizeResult(files, dirs, file_index, plan, refused)
          IN  /\ denied' = refused
              /\ files' = r.files
              /\ dirs' = r.dirs
              /\ moveLog' = r.log
              /\ report' = r.report
    /\ pc' = "done"
    /\ outcome' = "complete"
    /\ UNCHANGED <<vault_path, backup_enabled, file_index, plan, response,
                   backup_dir, backups, clock, copies, vault0, runs,
                   reply_keys>>

reorganize_vault == reorganize_vault_ok \/ reorganize_vault_raise

(***************************************************************************)
(* The vaults and the specifications                                       *)
(***************************************************************************)
CandFiles ==
    {<<x_md>>, <<dir_a, x_md>>, <<dir_a, dir_b, y_md>>, <<dir_a, t_txt>>,
     <<s_md>>, <<obsidian, z_md>>}
CandDirs == {<<dir_e>>, <<dir_a, trash>>}

DirsOf(fs, extra) ==
    UNION {Ancestors(Parent(p)) : p \in fs} \cup UNION {Ancestors(d) : d \in extra}

Vault(fs, ds, rep) == [files |-> fs, dirs |-> ds, report |-> rep]

\* the organizer after __init__, main about to call run on it
InitWith(paths, nfiles, ndirs, nkeys) ==
    /\ vault_path \in paths
    /\ backup_enabled \in BOOLEAN
    /\ \E fs \in {S \in SUBSET CandFiles : Cardinality(S) <= nfiles},
          extra \in {S \in SUBSET CandDirs : Cardinality(S) <= ndirs} :
          /\ files = [p \in fs |-> p]
          /\ dirs = DirsOf(fs, extra)
    /\ file_index = <<>>
    /\ pc = "index"
    /\ outcome = ""
    /\ plan = None
    /\ response = ""
    /\ backup_dir = NoDir
    /\ backups = {}
    /\ clock = 0
    /\ copies = 0
    /\ moveLog = <<>>
    /\ report = NoReport
    /\ vault0 = Vault(files, dirs, report)
    /\ runs = 1
    /\ denied = {}
    /\ reply_keys = nkeys

Init == InitWith(VaultPaths, MaxFiles, MaxExtraDirs, MaxPlanKeys)

Next ==
    \/ index_vault
    \/ create_backup
    \/ get_organization_suggestions
    \/ confirm
    \/ reorganize_vault

Spec == Init /\ [][Next]_vars

\* run is called once more on the same organizer, some seconds later
run_again ==
    /\ pc = "done"
    /\ runs < MaxRuns
    /\ runs' = runs + 1
    /\ backup_enabled' \in BOOLEAN
    /\ \E dt \in 0..1 : clock' = clock + dt /\ clock' <= MaxClock
    /\ pc' = "index"
    /\ outcome' = ""
    /\ plan' = None
    /\ response' = ""
    /\ backup_dir' = NoDir
    /\ copies' = 0
    /\ moveLog' = <<>>
    /\ denied' = {}
    /\ vault0' = Vault(files, dirs, report)
    /\ UNCHANGED <<vault_path, files, dirs, file_index, backups, report,
                   reply_keys>>

\* fewer vaults and smaller replies, so that two runs can be explored
InitRerun == InitWith({RelPath(<<>>), RelPath(<<<<"vault">>>>)}, 1, 0, 1)

NextRerun == Next \/ run_again

SpecRerun == InitRerun /\ [][NextRerun]_vars

(***************************************************************************)
(* Properties                                                              *)
(***************************************************************************)
VaultNow == Vault(files, dirs, report)

Affirmative == Lower(response) \in {"yes", "y"}

Moved == {moveLog[i].current : i \in {j \in 1..Len(moveLog) : moveLog[j].moved}}

Hidden(p) == \E part \in Range(p) : StartsWithDot(part)

\* C1: when run has ended and the index was empty, or no plan was returned,
\* or the answer was not yes / y, the vault is what it was when run started.
C1_NoMutationUnlessConfirmed ==
    (pc = "done" /\ ~(file_index # <<>> /\ Truthy(plan) /\ Affirmative))
        => VaultNow = vault0

\* C2: a step of reorganize_vault that changes the vault is taken, when the
\* backup is enabled, only after this run's copytree has completed; once
\* create_backup has raised, no step changes the vault.
C2_BackupBeforeMutation ==
    [][ /\ (pc = "reorganize" /\ VaultNow' # VaultNow)
            => (backup_enabled => (backup_dir \in backups /\ copies = 1))
        /\ outcome = "create_backup raised" => VaultNow' = VaultNow ]_vars

C2_Witness ==
    /\ outcome = "complete"
    /\ backup_enabled
    /\ backup_dir \in backups
    /\ Moved # {}

\* C3: after reorganize_vault has returned, every indexed file that the
\* plan does not map is at its place with the content it had.
C3_UnmappedUntouched ==
    outcome = "complete" =>
        \A i \in 1..Len(file_index) :
            LET p == file_index[i].full_relative_path
            IN  (p \notin DOMAIN plan.organization_plan
                    /\ p \in DOMAIN vault0.files)
                => (p \in DOMAIN files /\ files[p] = vault0.files[p])

\* C4: a move whose destination holds a file already is an error for that
\* file: it is not reported as moved and the file stays at its source.
C4_CollisionIsCaught ==
    outcome = "complete" =>
        \A i \in 1..Len(moveLog) :
            moveLog[i].collided =>
                (~moveLog[i].moved /\ moveLog[i].current \in DOMAIN files)

\* C5: after reorganize_vault has returned, every directory below the root
\* whose path has no hidden segment holds a file or a directory.
C5_NoEmptyDirLeft ==
    outcome = "complete" =>
        \A d \in dirs :
            ~Hidden(d) =>
                (SubdirsIn(dirs, d) # {} \/ FilesIn(DOMAIN files, d) # {})

\* C6: the File Movements section has a line for a path exactly when the
\* file at that path was moved by this reorganization.
C6_ReportListsActualMoves ==
    outcome = "complete" =>
        {m[1] : m \in report.movements} = Moved

\* C7: the directory create_backup has copied to is a child of the parent
\* of the vault root and lies outside the vault.
C7_BackupIsSibling ==
    backup_dir # NoDir =>
        (Parent(backup_dir) = Parent(VaultRoot) /\ ~InVault(backup_dir))

\* C8: a completed run made no copy when the backup is disabled, and its
\* vault is the one reorganize_vault makes of the initial vault, which is
\* what the run with the backup disabled ends with.
C8_BackupDoesNotChangeOutcome ==
    outcome = "complete" =>
        LET r == ReorganizeResult(vault0.files, vault0.dirs, file_index,
                                  plan, denied)
        IN  /\ ~backup_enabled => copies = 0
            /\ VaultNow = Vault(r.files, r.dirs, r.report)

\* C9: after index_vault, in every run, the index holds one record for each
\* .md file of the vault that is not hidden and has no hidden ancestor, and
\* no other record.
C9_OneRecordPerNote ==
    pc # "index" =>
        \A p \in DOMAIN vault0.files
                 \cup {file_index[i].full_relative_path :
                          i \in 1..Len(file_index)} :
            Cardinality({i \in 1..Len(file_index) :
                            file_index[i].full_relative_path = p})
            = IF p \in DOMAIN vault0.files /\ EndsWithMd(Name(p)) /\ ~Hidden(p)
              THEN 1 ELSE 0

\* C10: a confirmed plan that lacks the path mapping or the folder
\* descriptions makes reorganize_vault return normally with every file
\* where it was.
C10_MissingFieldsTolerated ==
    (pc = "done" /\ Truthy(plan) /\ Affirmative
        /\ ~({"organization_plan", "folder_descriptions"} \subseteq plan.keys))
    => /\ outcome = "complete"
       /\ \A p \in DOMAIN vault0.files :
             p \in DOMAIN files /\ files[p] = vault0.files[p]

====
